---- MODULE Spec2Model ----
(***************************************************************************)
(* NEM12 hourly pipeline of StreamlitNem.py: parse_nem12_csv_file,         *)
(* create_hourly_dataframe and process_nem12_file.                         *)
(*                                                                         *)
(* Representation.  A Python str is a sequence of one-character strings.   *)
(* A line of the file is the sequence of its comma-free pieces, so that    *)
(* str.split(',') returns the pieces themselves; the trailing newline is   *)
(* not represented (line.strip() removes it).  A float is a record         *)
(* [nan, v]: v counts units of 10^-FracDigits, nan marks numpy.nan.  A     *)
(* date is its proleptic Gregorian ordinal (date.toordinal()), a datetime  *)
(* is [ord, minute] with minute the minute of the day.                     *)
(***************************************************************************)
EXTENDS Integers, Sequences, FiniteSets, TLC

VARIABLES file, line_count, current_nmi, current_section, data_records,
          src_line, pc, df_5min_data, df_5min, hourly_df

vars == <<file, line_count, current_nmi, current_section, data_records,
          src_line, pc, df_5min_data, df_5min, hourly_df>>

(***************************************************************************)
(* Bounds of the model                                                     *)
(***************************************************************************)
MaxLines == 4
MaxDayLines == 3
FracDigits == 7

(***************************************************************************)
(* Program constants                                                       *)
(***************************************************************************)
IntervalsPerDay == 288
MaxFields == 290
MinHeaderFields == 6
MinIntervalFields == 3
DateLen == 8
WindowDays == 730
MinutesPerInterval == 5
PowerFactor == 12
RoundDigits == 6

Min(a, b) == IF a < b THEN a ELSE b

(***************************************************************************)
(* Python values                                                           *)
(***************************************************************************)
None == <<"None">>
NoSection == "None"
Truthy(s) == s # None /\ s # <<>>

NaN == [nan |-> TRUE, v |-> 0]
Num(n) == [nan |-> FALSE, v |-> n]

(***************************************************************************)
(* str methods                                                             *)
(***************************************************************************)
IsSpace(c) == c \in {" ", "\t"}

RECURSIVE LStrip(_)
LStrip(s) ==
    IF s = <<>> THEN <<>>
    ELSE IF IsSpace(Head(s)) THEN LStrip(Tail(s)) ELSE s

RECURSIVE RStrip(_)
RStrip(s) ==
    IF s = <<>> THEN <<>>
    ELSE IF IsSpace(s[Len(s)]) THEN RStrip(SubSeq(s, 1, Len(s) - 1)) ELSE s

Strip(s) == RStrip(LStrip(s))

Remove(s, c) == SelectSeq(s, LAMBDA x : x # c)

\* line.strip().split(','): the pieces, the first stripped on the left and
\* the last on the right (a comma is not whitespace, so strip stops there).
StripSplit(line) ==
    [k \in 1..Len(line) |->
        LET a == IF k = 1 THEN LStrip(line[k]) ELSE line[k]
        IN  IF k = Len(line) THEN RStrip(a) ELSE a]

(***************************************************************************)
(* Digits and calendar                                                     *)
(***************************************************************************)
Digits == {"0", "1", "2", "3", "4", "5", "6", "7", "8", "9"}

DigitVal ==
    ("0" :> 0) @@ ("1" :> 1) @@ ("2" :> 2) @@ ("3" :> 3) @@ ("4" :> 4) @@
    ("5" :> 5) @@ ("6" :> 6) @@ ("7" :> 7) @@ ("8" :> 8) @@ ("9" :> 9)

IsDigits(s) == \A i \in 1..Len(s) : s[i] \in Digits

RECURSIVE ToNat(_)
ToNat(s) ==
    IF s = <<>> THEN 0
    ELSE 10 * ToNat(SubSeq(s, 1, Len(s) - 1)) + DigitVal[s[Len(s)]]

IsLeap(y) == (y % 4 = 0) /\ ((y % 100 # 0) \/ (y % 400 = 0))

DaysInMonth(y, m) ==
    IF m = 2 THEN (IF IsLeap(y) THEN 29 ELSE 28)
    ELSE IF m \in {4, 6, 9, 11} THEN 30 ELSE 31

DaysBeforeYear(y) ==
    (y - 1) * 365 + ((y - 1) \div 4) - ((y - 1) \div 100) + ((y - 1) \div 400)

RECURSIVE DaysBeforeMonth(_, _)
DaysBeforeMonth(y, m) ==
    IF m = 1 THEN 0 ELSE DaysBeforeMonth(y, m - 1) + DaysInMonth(y, m - 1)

ToOrdinal(y, m, d) == DaysBeforeYear(y) + DaysBeforeMonth(y, m) + d

\* date.min, the earliest date a date subtraction can produce
MinOrdinal == ToOrdinal(1, 1, 1)

(***************************************************************************)
(* datetime.strptime(date_str, '%Y%m%d'): the format's regular expression  *)
(* is matched from the left with its alternatives tried in order, text     *)
(* left over is an error, and so is a year, month or day out of range.     *)
(***************************************************************************)
\* %m: 1[0-2] | 0[1-9] | [1-9]; the number of characters matched at p, or 0
MatchMonth(s, p) ==
    LET c1 == IF p <= Len(s) THEN s[p] ELSE ""
        c2 == IF p + 1 <= Len(s) THEN s[p + 1] ELSE ""
    IN  IF c1 = "1" /\ c2 \in {"0", "1", "2"} THEN 2
        ELSE IF c1 = "0" /\ c2 \in Digits \ {"0"} THEN 2
        ELSE IF c1 \in Digits \ {"0"} THEN 1
        ELSE 0

\* %d: 3[0-1] | [1-2]\d | 0[1-9] | [1-9] | " "[1-9]
MatchDay(s, p) ==
    LET c1 == IF p <= Len(s) THEN s[p] ELSE ""
        c2 == IF p + 1 <= Len(s) THEN s[p + 1] ELSE ""
    IN  IF c1 = "3" /\ c2 \in {"0", "1"} THEN 2
        ELSE IF c1 \in {"1", "2"} /\ c2 \in Digits THEN 2
        ELSE IF c1 = "0" /\ c2 \in Digits \ {"0"} THEN 2
        ELSE IF c1 \in Digits \ {"0"} THEN 1
        ELSE IF c1 = " " /\ c2 \in Digits \ {"0"} THEN 2
        ELSE 0

StrptimeError == [ok |-> FALSE, ord |-> 0]

Strptime(s) ==
    IF Len(s) < 4 \/ ~IsDigits(SubSeq(s, 1, 4)) THEN StrptimeError
    ELSE
      LET y  == ToNat(SubSeq(s, 1, 4))
          ml == MatchMonth(s, 5)
          dl == MatchDay(s, 5 + ml)
          m  == ToNat(SubSeq(s, 5, 4 + ml))
          d  == ToNat(Remove(SubSeq(s, 5 + ml, 4 + ml + dl), " "))
      IN  IF ml = 0 \/ dl = 0 THEN StrptimeError
          ELSE IF 4 + ml + dl # Len(s) THEN StrptimeError
          ELSE IF y < 1 \/ d > DaysInMonth(y, m) THEN StrptimeError
          ELSE [ok |-> TRUE, ord |-> ToOrdinal(y, m, d)]

(***************************************************************************)
(* float(value_str), on the decimal part of its grammar: an optional sign, *)
(* digits with an optional point, or "nan"; any other text is a            *)
(* ValueError.  Fraction digits beyond FracDigits are not represented.     *)
(***************************************************************************)
RECURSIVE Pow10(_)
Pow10(n) == IF n = 0 THEN 1 ELSE 10 * Pow10(n - 1)

Scale == Pow10(FracDigits)

FloatError == [err |-> TRUE, val |-> NaN]

DotAt(s) == IF \E i \in 1..Len(s) : s[i] = "."
            THEN CHOOSE i \in 1..Len(s) : s[i] = "." /\ \A j \in 1..(i - 1) : s[j] # "."
            ELSE Len(s) + 1

Float(s) ==
    IF s = <<"n", "a", "n">> THEN [err |-> FALSE, val |-> NaN]
    ELSE
      LET neg  == s # <<>> /\ Head(s) = "-"
          body == IF s # <<>> /\ Head(s) \in {"-", "+"} THEN Tail(s) ELSE s
          dot  == DotAt(body)
          ip   == SubSeq(body, 1, dot - 1)
          fp   == SubSeq(body, dot + 1, Len(body))
          fk   == SubSeq(fp, 1, Min(Len(fp), FracDigits))
          mag  == ToNat(ip) * Scale + ToNat(fk) * Pow10(FracDigits - Len(fk))
      IN  IF ~IsDigits(ip) \/ ~IsDigits(fp) \/ Len(ip) + Len(fp) = 0
          THEN FloatError
          ELSE [err |-> FALSE, val |-> Num(IF neg THEN 0 - mag ELSE mag)]

(***************************************************************************)
(* Input files.  Three families of lines, a file being a sequence of       *)
(* lines of one family: header context, dates, and interval values.        *)
(***************************************************************************)
T100 == <<"1", "0", "0">>
T200 == <<"2", "0", "0">>
T300 == <<"3", "0", "0">>
N1 == <<"N", "1">>
N2 == <<"N", "2">>
X == <<"x">>
E1B1 == <<"E", "1", "B", "1">>

\* header context
LineH1 == <<T200, N1, E1B1, <<"E", "1">>, X, X>>
LineH2 == <<<<" ">> \o T200, N2, E1B1, <<"B", "5">>, X, X \o <<" ">>>>
LineHShort == <<T200, N2, E1B1, <<"B", "1">>, X>>
LineHEmpty == <<T200, <<>>, E1B1, <<"E", "5">>, X, X>>
LineDA == <<T300, <<"2", "0", "2", "5", "0", "1", "0", "1">>,
            <<"0", ".", "2", "5">>>>
LineOther == <<T100, X>>

ContextLines == {LineH1, LineH2, LineHShort, LineHEmpty, LineDA, LineOther}

\* dates
V25 == <<"0", ".", "2", "5">>
V1 == <<"0", ".", "1">>
LineHB == <<T200, N1, E1B1, <<"E", "2">>, X, X>>
LineDOk == <<T300, <<"2", "0", "2", "4", "0", "3", "0", "1">>, V25>>
LineDShort == <<T300, <<"2", "0", "2", "4", "0", "3", "1">>, V25>>
LineDNoDay == <<T300, <<"2", "0", "2", "3", "0", "2", "2", "9">>, V25>>
LineDBlankDay == <<T300, <<"2", "0", "2", "4", "0", "3", " ", "2">>, V25>>
LineD730 == <<T300, <<" ", "2", "0", "2", "2", "0", "3", "0", "2", " ">>, V1>>
LineD731 == <<T300, <<"2", "0", "2", "2", "0", "3", "0", "1">>, V1, V25>>
LineDYear1 == <<T300, <<"0", "0", "0", "1", "0", "1", "0", "1">>, V1>>

DateLines == {LineHB, LineDOk, LineDShort, LineDNoDay, LineDBlankDay,
              LineD730, LineD731, LineDYear1}

\* interval values
Micro4 == <<"0", ".", "0", "0", "0", "0", "0", "0", "4">>
Cent1 == <<"0", ".", "0", "1">>
Cent2 == <<"0", ".", "0", "2">>
LineHC == <<T200, N1, E1B1, <<"X", "1">>, X, X>>
LineVMixed == <<T300, <<"2", "0", "2", "4", "0", "1", "0", "1">>,
                V25, <<>>, <<"a", "b", "c">>, <<"'">> \o V1 \o <<"'">>,
                <<" ", "\"", "\"", " ">>, <<"n", "a", "n">>,
                <<"-", "0", ".", "0", "5">>>>
LineVNone == <<T300, <<"2", "0", "2", "4", "0", "1", "0", "1">>>>
LineVFull == <<T300, <<"2", "0", "2", "4", "0", "1", "0", "2">>>>
             \o [i \in 1..IntervalsPerDay |-> Micro4]
LineVOver == <<T300, <<"2", "0", "2", "4", "0", "1", "0", "3">>>>
             \o [i \in 1..IntervalsPerDay |-> Cent1] \o <<Cent2, Cent2>>
LineBlank == << <<>> >>

ValueLines == {LineHC, LineVMixed, LineVNone, LineVFull, LineVOver, LineBlank}

SeqsUpTo(S, n) == UNION {[1..k -> S] : k \in 0..n}

Files == SeqsUpTo(ContextLines, MaxLines) \cup SeqsUpTo(DateLines, MaxLines)
         \cup SeqsUpTo(ValueLines, MaxDayLines)

(***************************************************************************)
(* parse_nem12_csv_file                                                    *)
(***************************************************************************)
section_mapping(code) ==
    IF code = <<"E", "5">> THEN "Import"
    ELSE IF code = <<"B", "5">> THEN "Export"
    ELSE IF code = <<"E", "1">> THEN "Import"
    ELSE IF code = <<"B", "1">> THEN "Export"
    ELSE IF code = <<"E", "2">> THEN "Controlled Load"
    ELSE "Not Mapped"

\* lines 70-80: one interval field to a float or numpy.nan
IntervalValue(field) ==
    LET value_str == Strip(Remove(Remove(Strip(field), "'"), "\""))
    IN  IF value_str # <<>>
        THEN (IF Float(value_str).err THEN NaN ELSE Float(value_str).val)
        ELSE NaN

\* IntervalValues with the loop bound one too small: range(2, min(len, 289))
IntervalValuesShortLoop(fields) ==
    LET n      == Min(Len(fields), MaxFields - 1) - 2
        read   == [i \in 1..n |-> IntervalValue(fields[i + 2])]
        padded == IF Len(read) < IntervalsPerDay
                  THEN read \o [i \in 1..(IntervalsPerDay - Len(read)) |-> NaN]
                  ELSE read
    IN  SubSeq(padded, 1, IntervalsPerDay)

\* lines 68-87: the values of fields 2.., padded to 288 and cut at 288
IntervalValues(fields) ==
    LET n      == Min(Len(fields), MaxFields) - 2
        read   == [i \in 1..n |-> IntervalValue(fields[i + 2])]
        padded == IF Len(read) < IntervalsPerDay
                  THEN read \o [i \in 1..(IntervalsPerDay - Len(read)) |-> NaN]
                  ELSE read
    IN  SubSeq(padded, 1, IntervalsPerDay)

Fields == StripSplit(file[line_count + 1])

Reading == pc = "parse" /\ line_count < Len(file)

\* Header200 accepting a header of five fields
Header200FiveFields ==
    /\ Reading
    /\ Fields[1] = T200
    /\ line_count' = line_count + 1
    /\ IF Len(Fields) >= MinHeaderFields - 1
       THEN /\ current_nmi' = Fields[2]
            /\ current_section' = section_mapping(Fields[4])
       ELSE UNCHANGED <<current_nmi, current_section>>
    /\ UNCHANGED <<file, data_records, src_line, pc, df_5min_data, df_5min,
                   hourly_df>>

\* lines 35-52: a "200" record
Header200 ==
    /\ Reading
    /\ Fields[1] = T200
    /\ line_count' = line_count + 1
    /\ IF Len(Fields) >= MinHeaderFields
       THEN /\ current_nmi' = Fields[2]
            /\ current_section' = section_mapping(Fields[4])
       ELSE UNCHANGED <<current_nmi, current_section>>
    /\ UNCHANGED <<file, data_records, src_line, pc, df_5min_data, df_5min,
                   hourly_df>>

\* lines 54-99: a "300" record
Interval300 ==
    /\ Reading
    /\ Fields[1] = T300
    /\ line_count' = line_count + 1
    /\ IF Truthy(current_nmi) /\ current_section # NoSection
          /\ Len(Fields) >= MinIntervalFields
       THEN LET date_str == Strip(Fields[2])
                date_obj == Strptime(date_str)
            IN  IF date_str = <<>> \/ Len(date_str) # DateLen
                THEN UNCHANGED <<data_records, src_line>>
                ELSE IF ~date_obj.ok
                THEN UNCHANGED <<data_records, src_line>>
                ELSE /\ data_records' = Append(data_records,
                            [nmi |-> current_nmi,
                             section |-> current_section,
                             date |-> date_str,
                             date_obj |-> date_obj.ord,
                             interval_values |-> IntervalValues(Fields)])
                     /\ src_line' = Append(src_line, line_count + 1)
       ELSE UNCHANGED <<data_records, src_line>>
    /\ UNCHANGED <<file, current_nmi, current_section, pc, df_5min_data,
                   df_5min, hourly_df>>

\* any other record type
OtherLine ==
    /\ Reading
    /\ Fields[1] \notin {T200, T300}
    /\ line_count' = line_count + 1
    /\ UNCHANGED <<file, current_nmi, current_section, data_records, src_line,
                   pc, df_5min_data, df_5min, hourly_df>>

\* lines 101-105 and 276: the loop ends and the records are returned
ParseReturn ==
    /\ pc = "parse"
    /\ line_count = Len(file)
    /\ pc' = "parsed"
    /\ UNCHANGED <<file, line_count, current_nmi, current_section,
                   data_records, src_line, df_5min_data, df_5min, hourly_df>>

(***************************************************************************)
(* process_nem12_file and create_hourly_dataframe                          *)
(***************************************************************************)
\* lines 278-280: no record was parsed, the result is None
ProcessEmpty ==
    /\ pc = "parsed"
    /\ data_records = <<>>
    /\ pc' = "none"
    /\ UNCHANGED <<file, line_count, current_nmi, current_section,
                   data_records, src_line, df_5min_data, df_5min, hourly_df>>

\* IntervalTime stamping a slot with the end of its interval
IntervalTimeEnd(date_obj, i) ==
    [ord    |-> date_obj + ((MinutesPerInterval * (i + 1)) \div 1440),
     minute |-> (MinutesPerInterval * (i + 1)) % 1440]

\* line 122: record['date_obj'] + timedelta(minutes=5 * i)
IntervalTime(date_obj, i) ==
    [ord    |-> date_obj + ((MinutesPerInterval * i) \div 1440),
     minute |-> (MinutesPerInterval * i) % 1440]

\* lines 124-132: the row of slot i (counted from 0) of a record
SampleRow(record, i) ==
    LET interval_time == IntervalTime(record.date_obj, i)
    IN  [nmi |-> record.nmi,
         section |-> record.section,
         timestamp |-> interval_time,
         date |-> record.date_obj,
         hour |-> interval_time.minute \div 60,
         minute |-> interval_time.minute % 60,
         energy_kwh_5min |-> record.interval_values[i + 1].v]

\* RecordRows keeping the slots that hold nan (their rows read 0)
RecordRowsZeroFill(record) ==
    [k \in 1..Len(record.interval_values) |-> SampleRow(record, k - 1)]

\* lines 119-132: the rows of one record, slots holding nan left out
RecordRows(record) ==
    LET values == record.interval_values
        kept   == SelectSeq([i \in 1..Len(values) |-> i],
                            LAMBDA i : ~values[i].nan)
    IN  [k \in 1..Len(kept) |-> SampleRow(record, kept[k] - 1)]

\* lines 118-132: the rows of all records, in order
RECURSIVE ExpandRecords(_)
ExpandRecords(records) ==
    IF records = <<>> THEN <<>>
    ELSE ExpandRecords(SubSeq(records, 1, Len(records) - 1))
         \o RecordRows(records[Len(records)])

\* lines 111-138: the 5-minute table, or None when it would be empty
Expand ==
    /\ pc = "parsed"
    /\ data_records # <<>>
    /\ df_5min_data' = ExpandRecords(data_records)
    /\ df_5min' = df_5min_data'
    /\ pc' = IF df_5min_data' = <<>> THEN "none" ELSE "filter"
    /\ UNCHANGED <<file, line_count, current_nmi, current_section,
                   data_records, src_line, hourly_df>>

MaxOf(S) == CHOOSE x \in S : \A y \in S : y <= x
MinOf(S) == CHOOSE x \in S : \A y \in S : x <= y

DatesOf(rows) == {rows[i].date : i \in 1..Len(rows)}

\* line 144: max_date - timedelta(days=730)
CutoffDate(rows) == MaxOf(DatesOf(rows)) - WindowDays

\* FilterRows with an exclusive cutoff
FilterRowsExclusive(rows, cutoff_date) ==
    SelectSeq(rows, LAMBDA r : r.date > cutoff_date)

\* line 150: df_5min[df_5min['date'] >= cutoff_date]
FilterRows(rows, cutoff_date) ==
    SelectSeq(rows, LAMBDA r : r.date >= cutoff_date)

\* lines 141-151: the last two years; a cutoff before date.min is an
\* OverflowError of the date subtraction, which nothing catches
Filter ==
    /\ pc = "filter"
    /\ IF CutoffDate(df_5min) < MinOrdinal
       THEN /\ pc' = "raised"
            /\ UNCHANGED df_5min
       ELSE /\ df_5min' = FilterRows(df_5min, CutoffDate(df_5min))
            /\ pc' = "aggregate"
    /\ UNCHANGED <<file, line_count, current_nmi, current_section,
                   data_records, src_line, df_5min_data, hourly_df>>

\* 10^-RoundDigits in units of 10^-FracDigits
RoundUnit == Pow10(FracDigits - RoundDigits)

\* Round6 cutting the digits off instead of rounding
Round6Truncate(num, den) == RoundUnit * (num \div (den * RoundUnit))

\* .round(6): numpy's round to RoundDigits decimals of the quotient
\* num / den, ties to the even neighbour
Round6(num, den) ==
    LET d == den * RoundUnit
        q == num \div d
        r == num % d
    IN  RoundUnit * (IF 2 * r < d THEN q
                     ELSE IF 2 * r > d THEN q + 1
                     ELSE IF q % 2 = 0 THEN q ELSE q + 1)

\* line 157: timestamp.dt.floor('h')
FloorHour(t) == [ord |-> t.ord, minute |-> 60 * (t.minute \div 60)]

GroupKey(r) == <<r.nmi, r.section, FloorHour(r.timestamp)>>

RECURSIVE SumSeq(_)
SumSeq(s) ==
    IF s = <<>> THEN 0
    ELSE IF Len(s) = 1 THEN s[1]
    ELSE LET half == Len(s) \div 2
         IN  SumSeq(SubSeq(s, 1, half)) + SumSeq(SubSeq(s, half + 1, Len(s)))

SeqRange(s) == {s[i] : i \in 1..Len(s)}

day_name == <<"Sunday", "Monday", "Tuesday", "Wednesday", "Thursday",
              "Friday", "Saturday">>

\* lines 160-186: the row of one (nmi, section, hour) group
HourlyRow(key, rows) ==
    LET group  == SelectSeq(rows, LAMBDA r : GroupKey(r) = key)
        energy == [i \in 1..Len(group) |-> group[i].energy_kwh_5min]
        avg    == Round6(SumSeq(energy), Len(energy))
        lo     == Round6(MinOf(SeqRange(energy)), 1)
        hi     == Round6(MaxOf(SeqRange(energy)), 1)
    IN  [nmi |-> key[1],
         section |-> key[2],
         hourly_group |-> key[3],
         hourly_energy_kwh |-> Round6(SumSeq(energy), 1),
         avg_5min_energy_kwh |-> avg,
         min_5min_energy_kwh |-> lo,
         max_5min_energy_kwh |-> hi,
         interval_count |-> Len(energy),
         date |-> key[3].ord,
         hour |-> key[3].minute \div 60,
         day_of_week |-> day_name[(key[3].ord % 7) + 1],
         avg_power_kw |-> Round6(avg * PowerFactor, 1),
         min_power_kw |-> Round6(lo * PowerFactor, 1),
         max_power_kw |-> Round6(hi * PowerFactor, 1)]

\* lines 156-190: one row per group; the table is held as the set of its rows
HourlyRows(rows) == {HourlyRow(key, rows) : key \in {GroupKey(r) : r \in SeqRange(rows)}}

Aggregate ==
    /\ pc = "aggregate"
    /\ hourly_df' = HourlyRows(df_5min)
    /\ pc' = "done"
    /\ UNCHANGED <<file, line_count, current_nmi, current_section,
                   data_records, src_line, df_5min_data, df_5min>>

(***************************************************************************)
(* Specification                                                           *)
(***************************************************************************)
Init ==
    /\ file \in Files
    /\ line_count = 0
    /\ current_nmi = None
    /\ current_section = NoSection
    /\ data_records = <<>>
    /\ src_line = <<>>
    /\ pc = "parse"
    /\ df_5min_data = <<>>
    /\ df_5min = <<>>
    /\ hourly_df = {}

Next ==
    \/ Header200
    \/ Interval300
    \/ OtherLine
    \/ ParseReturn
    \/ ProcessEmpty
    \/ Expand
    \/ Filter
    \/ Aggregate

Spec == Init /\ [][Next]_vars

(***************************************************************************)
(* Vocabulary of the properties                                            *)
(***************************************************************************)
LineFields(j) == StripSplit(file[j])

IsHeaderLine(j) == LineFields(j)[1] = T200
IsIntervalLine(j) == LineFields(j)[1] = T300

\* a "200" line with at least 6 fields
IsFullHeader(j) == IsHeaderLine(j) /\ Len(LineFields(j)) >= 6

FullHeadersBefore(j) == {h \in 1..(j - 1) : IsFullHeader(h)}

\* exactly eight digits YYYYMMDD naming a day of the calendar
IsYYYYMMDD(s) ==
    /\ Len(s) = 8
    /\ IsDigits(s)
    /\ LET y == ToNat(SubSeq(s, 1, 4))
           m == ToNat(SubSeq(s, 5, 6))
           d == ToNat(SubSeq(s, 7, 8))
       IN  y >= 1 /\ m \in 1..12 /\ d >= 1 /\ d <= DaysInMonth(y, m)

\* the date field of line j as the parser reads it
DateField(j) == Strip(LineFields(j)[2])

\* the records appended while line j was read
RecordsFrom(j) == {k \in 1..Len(src_line) : src_line[k] = j}

Abs(x) == IF x < 0 THEN 0 - x ELSE x

Count(seq, P(_)) == Len(SelectSeq(seq, P))

NonMissing(record) == Count(record.interval_values, LAMBDA x : ~x.nan)

RECURSIVE TotalNonMissing(_)
TotalNonMissing(records) ==
    IF records = <<>> THEN 0
    ELSE TotalNonMissing(Tail(records)) + NonMissing(Head(records))

RECURSIVE SumEnergy(_)
SumEnergy(rows) ==
    IF rows = {} THEN 0
    ELSE LET r == CHOOSE x \in rows : TRUE
         IN  r.hourly_energy_kwh + SumEnergy(rows \ {r})

Expanded == pc \in {"filter", "aggregate", "done", "raised"}
Filtered == pc \in {"aggregate", "done"}

(***************************************************************************)
(* C1                                                                      *)
(***************************************************************************)
\* C1: a "300" line with at least 3 fields and a valid YYYYMMDD date yields
\* exactly one record when a "200" line with at least 6 fields precedes it,
\* carrying field 1 and the mapped field 3 of the most recent such header;
\* it yields no record when no such header precedes it.
C1_IntervalAfterHeader ==
    \A j \in 1..line_count :
        (IsIntervalLine(j) /\ Len(LineFields(j)) >= 3 /\ IsYYYYMMDD(DateField(j)))
        => IF FullHeadersBefore(j) # {}
           THEN LET h == LineFields(MaxOf(FullHeadersBefore(j)))
                IN  /\ Cardinality(RecordsFrom(j)) = 1
                    /\ \A k \in RecordsFrom(j) :
                         /\ data_records[k].nmi = h[2]
                         /\ data_records[k].section = section_mapping(h[4])
           ELSE RecordsFrom(j) = {}

(***************************************************************************)
(* C2                                                                      *)
(***************************************************************************)
ShortHeaderNext ==
    /\ Reading
    /\ Fields[1] = T200
    /\ Len(Fields) < 6

\* every record carries the context of the most recent full header before
\* its line, whatever shorter headers lie in between
AttributedToFullHeader ==
    \A k \in 1..Len(data_records) :
        /\ FullHeadersBefore(src_line[k]) # {}
        /\ LET h == LineFields(MaxOf(FullHeadersBefore(src_line[k])))
           IN  /\ data_records[k].nmi = h[2]
               /\ data_records[k].section = section_mapping(h[4])

\* C2: reading a "200" line of fewer than 6 fields changes neither the
\* current meter id, nor the current section, nor the records, and the
\* records of later "300" lines still carry the previous full header.
C2_ShortHeaderKeepsContext ==
    /\ [][ShortHeaderNext =>
            UNCHANGED <<current_nmi, current_section, data_records>>]_vars
    /\ []AttributedToFullHeader

\* a short header naming another meter was read between a full header and a
\* "300" line whose record is in the list
C2_Witness ==
    \E j \in 1..line_count :
        /\ IsHeaderLine(j) /\ Len(LineFields(j)) < 6
        /\ \E k \in 1..Len(data_records) :
             /\ src_line[k] > j
             /\ FullHeadersBefore(src_line[k]) = FullHeadersBefore(j)
             /\ FullHeadersBefore(j) # {}
             /\ data_records[k].nmi # LineFields(j)[2]

(***************************************************************************)
(* C3                                                                      *)
(***************************************************************************)
\* C3: every record has exactly 288 values; position i holds the parsed
\* value of the line's i-th value field while the line supplies one (the
\* first 288 of them when it supplies more) and is missing beyond.
C3_Exactly288Values ==
    \A k \in 1..Len(data_records) :
        LET f == LineFields(src_line[k])
            values == data_records[k].interval_values
        IN  /\ Len(values) = 288
            /\ \A i \in 1..288 :
                 values[i] = IF i <= Len(f) - 2 THEN IntervalValue(f[i + 2])
                             ELSE NaN

\* one record of a line with fewer than 288 values, a parsed one and a
\* padded one among them, and one record of a line with more than 288
C3_Witness ==
    /\ \E k \in 1..Len(data_records) :
         LET n == Len(LineFields(src_line[k])) - 2
         IN  /\ n < 288
             /\ \E i \in 1..n : ~data_records[k].interval_values[i].nan
             /\ data_records[k].interval_values[n + 1].nan
    /\ \E k \in 1..Len(data_records) :
         /\ Len(LineFields(src_line[k])) - 2 > 288
         /\ ~data_records[k].interval_values[288].nan

(***************************************************************************)
(* C4                                                                      *)
(***************************************************************************)
LatestDate == MaxOf(DatesOf(df_5min_data))

\* C4: with D the latest date of all samples, the filter keeps exactly the
\* samples dated at most 730 days before D, in their order: one dated D-730
\* stays, one dated D-731 or earlier goes, nothing else goes or comes.
C4_WindowBoundary ==
    Filtered =>
        df_5min = SelectSeq(df_5min_data, LAMBDA r : LatestDate - r.date <= 730)

\* the filter kept a sample dated D-730 and dropped one dated D-731
C4_Witness ==
    /\ Filtered
    /\ \E i \in 1..Len(df_5min) : LatestDate - df_5min[i].date = 730
    /\ \E i \in 1..Len(df_5min_data) :
         /\ LatestDate - df_5min_data[i].date = 731
         /\ \A n \in 1..Len(df_5min) : df_5min[n] # df_5min_data[i]

(***************************************************************************)
(* C5                                                                      *)
(***************************************************************************)
\* the text of a value field is empty or is no number
IsBadText(field) ==
    LET t == Strip(Remove(Remove(Strip(field), "'"), "\""))
    IN  t = <<>> \/ Float(t).err

\* the slot (from 0) a sample's timestamp stands for
SlotOf(r) == (r.timestamp.ord - r.date) * 288 + (r.timestamp.minute \div 5)

SameDay(record, other) ==
    /\ record.nmi = other.nmi
    /\ record.section = other.section
    /\ record.date_obj = other.date_obj

\* C5: the expander yields as many samples as there are non-missing values;
\* every sample stands for a non-missing slot i of a record, stamped date +
\* 5*i minutes and carrying that slot's value; a slot whose text is empty
\* or unparseable yields no sample.
C5_MissingSlotsDropped ==
    (pc \in {"filter", "none"} /\ data_records # <<>>) =>
        /\ Len(df_5min_data) = TotalNonMissing(data_records)
        /\ \A n \in 1..Len(df_5min_data) :
             LET r == df_5min_data[n]
             IN  /\ r.timestamp.minute % 5 = 0
                 /\ SlotOf(r) \in 0..287
                 /\ \E k \in 1..Len(data_records) :
                      /\ r.nmi = data_records[k].nmi
                      /\ r.section = data_records[k].section
                      /\ r.date = data_records[k].date_obj
                      /\ ~data_records[k].interval_values[SlotOf(r) + 1].nan
                      /\ r.energy_kwh_5min =
                           data_records[k].interval_values[SlotOf(r) + 1].v
        /\ \A k \in 1..Len(data_records) :
             LET f == LineFields(src_line[k])
             IN  \A i \in 1..Min(Len(f) - 2, 288) :
                   (/\ IsBadText(f[i + 2])
                    /\ \A k2 \in 1..Len(data_records) :
                         SameDay(data_records[k], data_records[k2])
                         => data_records[k2].interval_values[i].nan)
                   => \A n \in 1..Len(df_5min_data) :
                        ~(/\ df_5min_data[n].nmi = data_records[k].nmi
                          /\ df_5min_data[n].section = data_records[k].section
                          /\ df_5min_data[n].date = data_records[k].date_obj
                          /\ SlotOf(df_5min_data[n]) = i - 1)

\* a record of a line with an empty value, an unparseable value and a
\* number has been expanded
C5_Witness ==
    /\ pc = "filter"
    /\ \E k \in 1..Len(data_records) :
         LET f == LineFields(src_line[k])
         IN  /\ \E i \in 3..Len(f) : f[i] = <<>>
             /\ \E i \in 3..Len(f) : f[i] # <<>> /\ IsBadText(f[i])
             /\ \E i \in 3..Len(f) : ~IsBadText(f[i])
    /\ df_5min_data # <<>>

(***************************************************************************)
(* C6                                                                      *)
(***************************************************************************)
\* record k is the only record of its meter, section and day, has all 288
\* values and passed the filter
IsFullDay(k) ==
    /\ NonMissing(data_records[k]) = 288
    /\ \A k2 \in 1..Len(data_records) :
         SameDay(data_records[k], data_records[k2]) => k2 = k
    /\ data_records[k].date_obj >= CutoffDate(df_5min_data)

DayRows(k) ==
    {r \in hourly_df : /\ r.nmi = data_records[k].nmi
                       /\ r.section = data_records[k].section
                       /\ r.date = data_records[k].date_obj}

RawSum(k) ==
    SumSeq([i \in 1..288 |-> data_records[k].interval_values[i].v])

ConservationWithin(tolerance) ==
    pc = "done" =>
        \A k \in 1..Len(data_records) :
            IsFullDay(k) =>
                /\ Cardinality(DayRows(k)) = 24
                /\ Abs(SumEnergy(DayRows(k)) - RawSum(k)) <= tolerance

\* C6 as claimed: over a full, unfiltered day the 24 rounded hourly sums add
\* up to the sum of the 288 raw values within 1e-6.
C6_ConservationWithin1e6 == ConservationWithin(RoundUnit)

\* C6: over a full, unfiltered day the 24 rounded hourly sums add up to the
\* sum of the 288 raw values within 24 * 0.5e-6 = 1.2e-5.
C6_ConservationWithinRounding == ConservationWithin(12 * RoundUnit)

\* a full day whose hourly sums were changed by the rounding
C6_Witness ==
    /\ pc = "done"
    /\ \E k \in 1..Len(data_records) :
         /\ IsFullDay(k)
         /\ Cardinality(DayRows(k)) = 24
         /\ SumEnergy(DayRows(k)) # RawSum(k)

(***************************************************************************)
(* C7                                                                      *)
(***************************************************************************)
GroupOf(row) ==
    SelectSeq(df_5min, LAMBDA r : GroupKey(r) = <<row.nmi, row.section, row.hourly_group>>)

GroupEnergy(row) == [i \in 1..Len(GroupOf(row)) |-> GroupOf(row)[i].energy_kwh_5min]

\* C7: in every hourly row avg_power_kw, min_power_kw and max_power_kw are
\* the group's mean, minimum and maximum times 12, rounded to 6 decimals,
\* and for a group of 12 samples avg_power_kw is the row's sum.
C7_PowerMetrics ==
    pc = "done" =>
        \A row \in hourly_df :
            LET e == GroupEnergy(row)
            IN  /\ row.avg_power_kw = Round6(12 * SumSeq(e), Len(e))
                /\ row.min_power_kw = Round6(12 * MinOf(SeqRange(e)), 1)
                /\ row.max_power_kw = Round6(12 * MaxOf(SeqRange(e)), 1)
                /\ Len(e) = 12 => row.avg_power_kw = row.hourly_energy_kwh

(***************************************************************************)
(* C8                                                                      *)
(***************************************************************************)
NoSample == TotalNonMissing(data_records) = 0

\* C8: the run never ends in an exception; it ends with None when the input
\* yields no sample and with a non-empty table when it yields one.
C8_EmptyResultNoException ==
    /\ pc # "raised"
    /\ pc \in {"none", "done"} =>
         IF NoSample THEN pc = "none"
         ELSE pc = "done" /\ hourly_df # {}

(***************************************************************************)
(* C9                                                                      *)
(***************************************************************************)
\* C9: a "300" line whose date is not exactly 8 characters or not a valid
\* YYYYMMDD date appends no record, so that every record in the list comes
\* from a line with a valid date.
C9_BadDateSkipped ==
    \A j \in 1..line_count :
        (/\ IsIntervalLine(j)
         /\ Len(LineFields(j)) >= 2
         /\ ~IsYYYYMMDD(DateField(j)))
        => RecordsFrom(j) = {}

(***************************************************************************)
(* C10                                                                     *)
(***************************************************************************)
\* C10: the date of every sample's timestamp is the sample's date field;
\* every hourly row has an hour in 0..23, the date of the samples of its
\* group, and all the samples the expander produced for its group.
C10_TimestampKeepsDate ==
    /\ Expanded =>
         \A n \in 1..Len(df_5min_data) :
            /\ df_5min_data[n].timestamp.ord = df_5min_data[n].date
            /\ df_5min_data[n].hour \in 0..23
    /\ pc = "done" =>
         \A row \in hourly_df :
            LET key == <<row.nmi, row.section, row.hourly_group>>
                all == SelectSeq(df_5min_data, LAMBDA r : GroupKey(r) = key)
            IN  /\ row.hour \in 0..23
                /\ row.interval_count = Len(all)
                /\ \A n \in 1..Len(all) : all[n].date = row.date
                /\ \E k \in 1..Len(data_records) :
                     /\ data_records[k].date_obj = row.date
                     /\ data_records[k].nmi = row.nmi
                     /\ data_records[k].section = row.section

\* the last slot of a day was expanded and aggregated into hour 23
C10_Witness ==
    /\ pc = "done"
    /\ \E n \in 1..Len(df_5min_data) :
         /\ SlotOf(df_5min_data[n]) = 287
         /\ df_5min_data[n].timestamp.minute = 1435
    /\ \E row \in hourly_df : row.hour = 23 /\ row.interval_count >= 12

====
